---------------------------- MODULE Spec2Model ----------------------------
(***************************************************************************)
(* A model of dockerfile_parse/parser.py (class DockerfileParser).         *)
(*                                                                         *)
(* Text is modelled as a sequence of one-character strings, a line list    *)
(* as a sequence of such sequences, and line numbers are zero-based as in  *)
(* the Python source (the line with number n is lines[n + 1] here).         *)
(* The Dockerfile on disk is the flat character sequence `file'; reading   *)
(* splits it into physical lines and writing concatenates the elements     *)
(* handed to the setter, as readlines()/writelines() do.                   *)
(***************************************************************************)
EXTENDS Integers, Sequences, FiniteSets, TLC

(***************************************************************************)
(* Characters and the str methods the parser uses.                         *)
(***************************************************************************)
UpperLetters ==
    <<"A","B","C","D","E","F","G","H","I","J","K","L","M",
      "N","O","P","Q","R","S","T","U","V","W","X","Y","Z">>

LowerLetters ==
    <<"a","b","c","d","e","f","g","h","i","j","k","l","m",
      "n","o","p","q","r","s","t","u","v","w","x","y","z">>

Digits == {"0","1","2","3","4","5","6","7","8","9"}

Range(s) == {s[i] : i \in DOMAIN s}

\* \w of the re module, within ASCII
WordChars == Range(UpperLetters) \cup Range(LowerLetters) \cup Digits \cup {"_"}

\* \s of the re module and the characters str.strip() removes, within ASCII
SpaceChars == {" ", "\t", "\n", "\r", "\f"}

IsSpace(c) == c \in SpaceChars

IsWord(c) == c \in WordChars

Max(S) == CHOOSE x \in S : \A y \in S : y <= x

Min(S) == CHOOSE x \in S : \A y \in S : x <= y

\* str.upper() on one character
UpperChar(c) ==
    IF c \in Range(LowerLetters)
    THEN UpperLetters[CHOOSE i \in 1..26 : LowerLetters[i] = c]
    ELSE c

\* str.upper()
upper(s) == [i \in 1..Len(s) |-> UpperChar(s[i])]

\* the number of leading whitespace characters of s
LeadingSpaces(s) ==
    Max({n \in 0..Len(s) : \A i \in 1..n : IsSpace(s[i])})

\* str.lstrip()
lstrip(s) == SubSeq(s, LeadingSpaces(s) + 1, Len(s))

\* str.rstrip()
rstrip(s) ==
    SubSeq(s, 1, Min({n \in 0..Len(s) : \A i \in (n + 1)..Len(s) : IsSpace(s[i])}))

\* ''.join(list)
RECURSIVE join(_)
join(ls) == IF ls = <<>> THEN <<>> ELSE ls[1] \o join(Tail(ls))

\* sep.join(list)
RECURSIVE join_sep(_, _)
join_sep(sep, ls) ==
    IF ls = <<>> THEN <<>>
    ELSE IF Len(ls) = 1 THEN ls[1]
    ELSE ls[1] \o sep \o join_sep(sep, Tail(ls))

\* file.readlines() and str.splitlines(True): cut after every "\n"; a last
\* line without "\n" is kept as it is.  (The other line boundaries of
\* splitlines, such as "\r", do not occur in the texts of this model.)
RECURSIVE splitlines(_)
splitlines(text) ==
    IF text = <<>> THEN <<>>
    ELSE LET nl == {i \in 1..Len(text) : text[i] = "\n"}
             e  == IF nl = {} THEN Len(text) ELSE Min(nl)
         IN  <<SubSeq(text, 1, e)>> \o splitlines(SubSeq(text, e + 1, Len(text)))

(***************************************************************************)
(* structure: the regular expressions and the scan over the lines.         *)
(***************************************************************************)
\* $ of the re module (no MULTILINE): after q characters of line, at the
\* end of the string or just before a newline that ends the string
AtDollar(line, q) ==
    \/ q = Len(line)
    \/ q = Len(line) - 1 /\ line[Len(line)] = "\n"

\* the end of a greedy .* that starts after position p: "." is any
\* character but a newline
DotStarEnd(line, p) ==
    LET nl == {i \in (p + 1)..Len(line) : line[i] = "\n"}
    IN  IF nl = {} THEN Len(line) ELSE Min(nl) - 1

NoMatch == [ok |-> FALSE, g1 |-> <<>>, g2 |-> <<>>]

\* insnre.match(line) for insnre = ^\s*(\w+)\s+(.*)$ : the quantifiers are
\* greedy and \s+ gives back characters until (.*)$ matches
insnre_match(line) ==
    LET n  == Len(line)
        i  == LeadingSpaces(line)
        j  == Max({e \in i..n : \A k \in (i + 1)..e : IsWord(line[k])})
        k  == Max({e \in j..n : \A q \in (j + 1)..e : IsSpace(line[q])})
        ms == {m \in (j + 1)..k : AtDollar(line, DotStarEnd(line, m))}
    IN  IF j = i \/ ms = {} THEN NoMatch
        ELSE [ok |-> TRUE,
              g1 |-> SubSeq(line, i + 1, j),
              g2 |-> SubSeq(line, Max(ms) + 1, DotStarEnd(line, Max(ms)))]

\* contre without its \s*: the backslash has to be the last character of
\* the line
contre_match_strict(line) ==
    \E p \in 1..Len(line) : line[p] = "\\" /\ AtDollar(line, p)

\* contre.match(line) for contre = ^.*\\\s*$ : line continues?
contre_match(line) ==
    \E p \in 1..Len(line) :
        /\ line[p] = "\\"
        /\ \A q \in 1..(p - 1) : line[q] # "\n"
        /\ \E e \in p..Len(line) :
              /\ \A q \in (p + 1)..e : IsSpace(line[q])
              /\ AtDollar(line, e)

_rstrip_backslash(l) ==
    LET s == rstrip(l)
    IN  IF s # <<>> /\ s[Len(s)] = "\\" THEN SubSeq(s, 1, Len(s) - 1) ELSE s

\* current_instruction = None
None == [instruction |-> <<>>, startline |-> -1, endline |-> -1,
         content |-> <<>>, value |-> <<>>]

\* one pass of the for loop of structure, from line number lineno on
RECURSIVE structure_loop(_, _, _, _, _)
structure_loop(ls, lineno, in_continuation, current_instruction, instructions) ==
    IF lineno >= Len(ls) THEN instructions
    ELSE
      LET line == ls[lineno + 1]
          m    == insnre_match(line)
      IN  IF ~in_continuation /\ ~m.ok
          THEN structure_loop(ls, lineno + 1, in_continuation,
                              current_instruction, instructions)
          ELSE
            LET cur ==
                  IF ~in_continuation
                  THEN [instruction |-> upper(m.g1),
                        startline   |-> lineno,
                        endline     |-> lineno,
                        content     |-> line,
                        value       |-> _rstrip_backslash(m.g2)]
                  ELSE [current_instruction EXCEPT
                          !.content = @ \o line,
                          !.endline = lineno,
                          !.value   = IF @ # <<>>
                                      THEN @ \o _rstrip_backslash(line)
                                      ELSE _rstrip_backslash(lstrip(line))]
                cont == contre_match(line)
            IN  structure_loop(ls, lineno + 1, cont, cur,
                               IF ~cont /\ cur # None
                               THEN Append(instructions, cur)
                               ELSE instructions)

\* structure closing the instruction it is in at the end of the lines: the
\* last line is read without its backslash
structure_flush(ls) ==
    structure_loop(IF ls = <<>> THEN ls
                   ELSE [ls EXCEPT ![Len(ls)] = _rstrip_backslash(@)],
                   0, FALSE, None, <<>>)

\* structure keeping as content what it keeps as value of a line: the line
\* without its white space and backslash at the end
structure_stripped(ls) ==
    structure_loop([n \in 1..Len(ls) |-> _rstrip_backslash(ls[n])],
                   0, FALSE, None, <<>>)

\* the structure property, of the lines it reads
structure(ls) == structure_loop(ls, 0, FALSE, None, <<>>)

(***************************************************************************)
(* shlex.split (POSIX mode, whitespace_split, no commenters) and quote.    *)
(***************************************************************************)
ShlexWhitespace == {" ", "\t", "\r", "\n"}

ShlexQuotes == {"'", "\""}

ShlexEscape == {"\\"}

ShlexEscapedQuotes == {"\""}

\* the lexer before the first character: state ' ', no token
ShlexStart ==
    [state |-> " ", escapedstate |-> " ", token |-> <<>>, quoted |-> FALSE,
     out |-> <<>>]

\* read_token returns the token: it is kept unless it is empty and unquoted
ShlexEmit(lx) ==
    [lx EXCEPT !.out = IF lx.token # <<>> \/ lx.quoted
                       THEN Append(lx.out, lx.token) ELSE @,
               !.token = <<>>, !.quoted = FALSE]

\* one character read by shlex.read_token
ShlexChar(lx, c) ==
    IF lx.state = " " THEN
        IF c \in ShlexWhitespace THEN
            IF lx.token # <<>> \/ lx.quoted THEN ShlexEmit(lx) ELSE lx
        ELSE IF c \in ShlexEscape THEN
            [lx EXCEPT !.escapedstate = "a", !.state = c]
        ELSE IF c \in ShlexQuotes THEN
            [lx EXCEPT !.state = c]
        ELSE [lx EXCEPT !.token = <<c>>, !.state = "a"]
    ELSE IF lx.state \in ShlexQuotes THEN
        IF c = lx.state THEN
            [lx EXCEPT !.quoted = TRUE, !.state = "a"]
        ELSE IF c \in ShlexEscape /\ lx.state \in ShlexEscapedQuotes THEN
            [lx EXCEPT !.quoted = TRUE, !.escapedstate = lx.state, !.state = c]
        ELSE [lx EXCEPT !.quoted = TRUE, !.token = Append(@, c)]
    ELSE IF lx.state \in ShlexEscape THEN
        [lx EXCEPT !.token = IF /\ lx.escapedstate \in ShlexQuotes
                                /\ c # lx.state
                                /\ c # lx.escapedstate
                             THEN @ \o <<lx.state, c>>
                             ELSE Append(@, c),
                   !.state = lx.escapedstate]
    ELSE \* state 'a'
        IF c \in ShlexWhitespace THEN
            IF lx.token # <<>> \/ lx.quoted
            THEN ShlexEmit([lx EXCEPT !.state = " "])
            ELSE [lx EXCEPT !.state = " "]
        ELSE IF c \in ShlexQuotes THEN
            [lx EXCEPT !.state = c]
        ELSE IF c \in ShlexEscape THEN
            [lx EXCEPT !.escapedstate = "a", !.state = c]
        ELSE [lx EXCEPT !.token = Append(@, c)]

RECURSIVE ShlexRun(_, _, _)
ShlexRun(s, i, lx) ==
    IF i > Len(s) THEN lx ELSE ShlexRun(s, i + 1, ShlexChar(lx, s[i]))

\* _shlex_split(string): the tokens, or ValueError (no closing quotation,
\* no escaped character) when the text ends inside a quote or an escape
_shlex_split(string) ==
    LET lx == ShlexRun(string, 1, ShlexStart)
    IN  IF lx.state \in ShlexQuotes \cup ShlexEscape
        THEN [err |-> "ValueError", splits |-> <<>>]
        ELSE [err |-> "", splits |-> ShlexEmit(lx).out]

\* the characters shlex.quote leaves unquoted: [\w@%+=:,./-]
SafeChars == WordChars \cup {"@", "%", "+", "=", ":", ",", ".", "/", "-"}

\* str.replace(old, new) for a one-character old
RECURSIVE replace(_, _, _)
replace(s, old, new) ==
    IF s = <<>> THEN <<>>
    ELSE (IF s[1] = old THEN new ELSE <<s[1]>>) \o replace(Tail(s), old, new)

\* shlex.quote
quote(s) ==
    IF s = <<>> THEN <<"'", "'">>
    ELSE IF \A i \in 1..Len(s) : s[i] \in SafeChars THEN s
    ELSE <<"'">> \o replace(s, "'", <<"'", "\"", "'", "\"", "'">>) \o <<"'">>

\* str.split(None, 1): at most two words, cut at the first run of whitespace
split_ws1(s) ==
    LET t  == lstrip(s)
        e  == Max({n \in 0..Len(t) : \A i \in 1..n : ~IsSpace(t[i])})
        r  == lstrip(SubSeq(t, e + 1, Len(t)))
    IN  IF t = <<>> THEN <<>>
        ELSE IF r = <<>> THEN <<SubSeq(t, 1, e)>>
        ELSE <<SubSeq(t, 1, e), r>>

\* str.split("=", 1)
split_eq1(s) ==
    LET eq == {i \in 1..Len(s) : s[i] = "="}
    IN  IF eq = {} THEN <<s>>
        ELSE <<SubSeq(s, 1, Min(eq) - 1), SubSeq(s, Min(eq) + 1, Len(s))>>

\* value.replace("'", "").replace('"', ''): remove (double-)quotes
unquote(value) == replace(replace(value, "'", <<>>), "\"", <<>>)

(***************************************************************************)
(* labels (getter): the label map of a list of lines, or the exception     *)
(* the getter raises.  A dict is a function from its keys.                 *)
(***************************************************************************)
LABEL == <<"L", "A", "B", "E", "L">>

FROM == <<"F", "R", "O", "M">>

CMD == <<"C", "M", "D">>

\* labels[key] = value
dict_set(d, key, value) ==
    [k \in DOMAIN d \cup {key} |-> IF k = key THEN value ELSE d[k]]

\* {} : the empty dict
EmptyDict == [k \in {} |-> <<>>]

\* the tokens of one LABEL "name"="value" instruction stored into labels
RECURSIVE labels_tokens(_, _, _)
labels_tokens(splits, i, labels) ==
    IF i > Len(splits) THEN labels
    ELSE LET key_val == split_eq1(splits[i])
         IN  labels_tokens(splits, i + 1,
                 dict_set(labels, key_val[1],
                          IF Len(key_val) > 1 THEN key_val[2] ELSE <<>>))

\* the for loop of the labels getter over the structure
RECURSIVE labels_loop(_, _, _)
labels_loop(insns, i, labels) ==
    IF i > Len(insns) THEN [err |-> "", labels |-> labels]
    ELSE IF insns[i].instruction # LABEL THEN labels_loop(insns, i + 1, labels)
    ELSE
      LET sp == _shlex_split(insns[i].value)
      IN  IF sp.err # "" THEN [err |-> sp.err, labels |-> labels]
          ELSE IF sp.splits = <<>>                 \* shlex_splits[0]
          THEN [err |-> "IndexError", labels |-> labels]
          ELSE IF "=" \notin Range(sp.splits[1]) THEN      \* LABEL name value
            LET key_val == split_ws1(unquote(insns[i].value))
            IN  IF key_val = <<>>                  \* key_val[0]
                THEN [err |-> "IndexError", labels |-> labels]
                ELSE labels_loop(insns, i + 1,
                        dict_set(labels, key_val[1],
                                 IF Len(key_val) > 1 THEN key_val[2] ELSE <<>>))
          ELSE labels_loop(insns, i + 1, labels_tokens(sp.splits, 1, labels))

\* the labels property, of the lines it reads
labels(ls) == labels_loop(structure(ls), 1, EmptyDict)

(***************************************************************************)
(* The parser object and its file while one call runs.  io is a record:    *)
(*   file           the content of the Dockerfile on disk                  *)
(*   cache_content  self.cache_content                                     *)
(*   cached_content self.cached_content                                    *)
(*   fail           which write of this call fails (0: none)               *)
(*   writes         the lists handed to the lines setter, in order         *)
(*   exc            the exception that ended the call ("" : none)          *)
(* The Dockerfile exists, so that reading does not fail.  A failing write  *)
(* is open(path, 'w') raising: the file keeps its content.                 *)
(***************************************************************************)
\* lines (getter): the list it returns
lines_get(io) ==
    IF io.cache_content /\ io.cached_content # <<>>
    THEN splitlines(io.cached_content)
    ELSE splitlines(io.file)

\* lines (getter): what it leaves in the cache
lines_read(io) ==
    IF io.cache_content /\ io.cached_content = <<>>
    THEN [io EXCEPT !.cached_content = join(splitlines(io.file))]
    ELSE io

\* lines (setter): the cache is filled first, then the file is written
lines_set(io, lines) ==
    LET c == [io EXCEPT !.cached_content = IF io.cache_content
                                           THEN join(lines) ELSE @,
                        !.writes = Append(@, lines)]
    IN  IF Len(c.writes) = io.fail
        THEN [c EXCEPT !.exc = "IOError"]
        ELSE [c EXCEPT !.file = join(lines)]

\* content (getter): the str it returns
content_get(io) ==
    IF io.cache_content /\ io.cached_content # <<>>
    THEN io.cached_content
    ELSE io.file

\* content (getter): what it leaves in the cache
content_read(io) ==
    IF io.cache_content /\ io.cached_content = <<>>
    THEN [io EXCEPT !.cached_content = io.file]
    ELSE io

\* content (setter): the cache is filled first, then the file is written
\* (writes takes the str as a list of one element)
content_set(io, content) ==
    LET c == [io EXCEPT !.cached_content = IF io.cache_content
                                           THEN content ELSE @,
                        !.writes = Append(@, <<content>>)]
    IN  IF Len(c.writes) = io.fail
        THEN [c EXCEPT !.exc = "IOError"]
        ELSE [c EXCEPT !.file = content]

\* del lines[a:b] (a slice is cut to the list)
del_slice(lines, a, b) ==
    LET lo == IF a < Len(lines) THEN a ELSE Len(lines)
        hi == IF b < Len(lines) THEN b ELSE Len(lines)
    IN  IF hi <= lo THEN lines
        ELSE SubSeq(lines, 1, lo) \o SubSeq(lines, hi + 1, Len(lines))

\* lines.insert(a, x) (an index past the end appends)
insert(lines, a, x) ==
    LET lo == IF a < Len(lines) THEN a ELSE Len(lines)
    IN  SubSeq(lines, 1, lo) \o <<x>> \o SubSeq(lines, lo + 1, Len(lines))

\* "if value" for an optional str argument: None and '' are both false
Truthy(opt) == opt.given /\ opt.s # <<>>

NoValue == [given |-> FALSE, s |-> <<>>]

Given(s) == [given |-> TRUE, s |-> s]

(***************************************************************************)
(* _add_instruction                                                        *)
(***************************************************************************)
\* '{0} "{1}"="{2}"\n'.format(instruction, value[0], value[1]) when the
\* instruction is LABEL and len(value) == 2 (a pair, or a str of two
\* characters), '{0} {1}\n'.format(instruction, value) otherwise.  value
\* is [pair |-> TRUE, k, v] or [pair |-> FALSE, k |-> the str, v |-> ""].
add_new_line(instruction, value) ==
    IF instruction = LABEL /\ (value.pair \/ Len(value.k) = 2)
    THEN instruction \o <<" ", "\"">>
            \o (IF value.pair THEN value.k ELSE <<value.k[1]>>)
            \o <<"\"", "=", "\"">>
            \o (IF value.pair THEN value.v ELSE <<value.k[2]>>)
            \o <<"\"", "\n">>
    ELSE instruction \o <<" ">> \o value.k \o <<"\n">>

\* lines += new_line: a list extended by a str takes its characters, one
\* element each
list_iadd(lines, new_line) ==
    lines \o [i \in 1..Len(new_line) |-> <<new_line[i]>>]

_add_instruction(io, instruction, value) ==
    LET new_line == add_new_line(instruction, value)
    IN  IF new_line # <<>>
        THEN lines_set(lines_read(io), list_iadd(lines_get(io), new_line))
        ELSE io

(***************************************************************************)
(* _delete_instructions                                                    *)
(***************************************************************************)
\* the loop over reversed(self.structure), from the instruction i down
RECURSIVE delete_loop(_, _, _, _, _)
delete_loop(insns, i, instruction, value, st) ==
    IF i < 1 THEN st
    ELSE IF insns[i].instruction = instruction
            /\ ~(Truthy(value) /\ insns[i].value # value.s)
    THEN delete_loop(insns, i - 1, instruction, value,
            [deleted |-> TRUE,
             lines   |-> del_slice(st.lines, insns[i].startline,
                                   insns[i].endline + 1)])
    ELSE delete_loop(insns, i - 1, instruction, value, st)

_delete_instructions(io, instruction, value) ==
    LET insns == structure(lines_get(io))
        st    == delete_loop(insns, Len(insns), instruction, value,
                             [deleted |-> FALSE, lines |-> lines_get(io)])
    IN  IF st.deleted THEN lines_set(lines_read(io), st.lines)
        ELSE lines_read(io)

(***************************************************************************)
(* _modify_instruction                                                     *)
(***************************************************************************)
\* '{0} {1}\n'.format(instruction, new_value)
modify_new_line(instruction, new_value) ==
    instruction \o <<" ">> \o new_value \o <<"\n">>

\* the loop body replacing the first line of the instruction only, as if
\* every instruction were one line long
modify_splice_first_line(io, insn, new_line) ==
    lines_set(lines_read(io),
              insert(del_slice(lines_get(io), insn.startline, insn.startline + 1),
                     insn.startline, new_line))

\* the body of the loop for one matching instruction: the lines are read
\* again, the span insn was found at is replaced, and the lines are set
modify_splice(io, insn, new_line) ==
    lines_set(lines_read(io),
              insert(del_slice(lines_get(io), insn.startline, insn.endline + 1),
                     insn.startline, new_line))

\* the loop over the structure computed when the loop began
RECURSIVE modify_loop(_, _, _, _, _, _)
modify_loop(io, insns, i, instruction, new_value, old_value) ==
    IF i > Len(insns) \/ io.exc # "" THEN io
    ELSE IF insns[i].instruction = instruction
            /\ ~(Truthy(old_value) /\ insns[i].value # old_value.s)
    THEN modify_loop(modify_splice(io, insns[i],
                                   modify_new_line(instruction, new_value)),
                     insns, i + 1, instruction, new_value, old_value)
    ELSE modify_loop(io, insns, i + 1, instruction, new_value, old_value)

\* _modify_instruction without its first two lines: LABEL is replaced like
\* any other instruction
_modify_instruction_any(io, instruction, new_value, old_value) ==
    modify_loop(lines_read(io), structure(lines_get(io)), 1,
                instruction, new_value, old_value)

_modify_instruction(io, instruction, new_value, old_value) ==
    IF instruction = LABEL THEN [io EXCEPT !.exc = "ValueError"]
    ELSE modify_loop(lines_read(io), structure(lines_get(io)), 1,
                     instruction, new_value, old_value)

(***************************************************************************)
(* _modify_instruction_label                                               *)
(***************************************************************************)
\* content = startline = endline = None
Unset == [err |-> "", set |-> FALSE, content |-> <<>>,
          startline |-> -1, endline |-> -1]

\* list.index(x): the zero-based place of the first element equal to x
index(list, x) == Min({i \in 1..Len(list) : list[i] = x}) - 1

\* LABEL name value, words[0] == label_key: the value is replaced and the
\* line is put together again
label_legacy(candidate, words, label_value, found) ==
    IF Len(words) < 2                                      \* words[1] = ...
    THEN [found EXCEPT !.err = "IndexError"]
    ELSE [err |-> "", set |-> TRUE,
          content   |-> join_sep(<<" ">>, <<LABEL, words[1], label_value>>)
                           \o <<"\n">>,
          startline |-> candidate.startline,
          endline   |-> candidate.endline]

\* LABEL "name"="value": the for loop over the tokens, left at the first
\* token whose name is label_key
label_tokens(candidate, splits, label_key, label_value, found) ==
    LET hits == {i \in 1..Len(splits) : split_eq1(splits[i])[1] = label_key}
    IN  IF hits = {} THEN found
        ELSE
          LET token == splits[Min(hits)]
              words == split_eq1(token)
              n     == index(splits, token)
          IN  IF Len(words) < 2                            \* words[1] = ...
              THEN [found EXCEPT !.err = "IndexError"]
              ELSE [err |-> "", set |-> TRUE,
                    content   |-> join_sep(<<" ">>,
                                     <<LABEL>> \o
                                     [splits EXCEPT ![n + 1] =
                                        quote(words[1]) \o <<"=">>
                                           \o quote(label_value)])
                                     \o <<"\n">>,
                    startline |-> candidate.startline,
                    endline   |-> candidate.endline]

\* the for loop over the LABEL instructions: the break of the legacy branch
\* leaves it, the break of the token loop leaves the token loop only
RECURSIVE label_candidates(_, _, _, _, _)
label_candidates(candidates, i, label_key, label_value, found) ==
    IF i > Len(candidates) \/ found.err # "" THEN found
    ELSE
      LET sp == _shlex_split(candidates[i].value)
      IN  IF sp.err # "" THEN [found EXCEPT !.err = sp.err]
          ELSE IF sp.splits = <<>> THEN [found EXCEPT !.err = "IndexError"]
          ELSE IF "=" \notin Range(sp.splits[1]) THEN
            LET words == split_ws1(unquote(candidates[i].value))
            IN  IF words = <<>>                                \* words[0]
                THEN [found EXCEPT !.err = "IndexError"]
                ELSE IF words[1] = label_key                   \* ... break
                THEN label_legacy(candidates[i], words, label_value, found)
                ELSE label_candidates(candidates, i + 1, label_key,
                                      label_value, found)
          ELSE label_candidates(candidates, i + 1, label_key, label_value,
                  label_tokens(candidates[i], sp.splits, label_key,
                               label_value, found))

\* SelectSeq with the instruction name: [insn for insn in ... if ...]
Named(insns, instruction) ==
    LET Is(insn) == insn.instruction = instruction
    IN  SelectSeq(insns, Is)

_modify_instruction_label(io, label_key, label_value) ==
    LET got == labels(lines_get(io))
        io1 == lines_read(io)
        f   == label_candidates(Named(structure(lines_get(io)), LABEL), 1,
                                label_key, label_value, Unset)
    IN  IF got.err # "" THEN [io1 EXCEPT !.exc = got.err]
        ELSE IF label_key \notin DOMAIN got.labels
        THEN [io1 EXCEPT !.exc = "KeyError"]
        ELSE IF f.err # "" THEN [io1 EXCEPT !.exc = f.err]
        \* assert content and startline and endline
        ELSE IF ~(f.set /\ f.content # <<>> /\ f.startline # 0 /\ f.endline # 0)
        THEN [io1 EXCEPT !.exc = "AssertionError"]
        ELSE lines_set(io1,
                 insert(del_slice(lines_get(io1), f.startline, f.endline + 1),
                        f.startline, f.content))

(***************************************************************************)
(* labels (setter) and change_labels.  The argument is                     *)
(* [isdict |-> BOOLEAN, items |-> the (key, value) pairs of the dict in    *)
(* the order items() gives them].                                          *)
(***************************************************************************)
RECURSIVE add_labels(_, _, _)
add_labels(io, items, i) ==
    IF i > Len(items) \/ io.exc # "" THEN io
    ELSE add_labels(_add_instruction(io, LABEL,
                        [pair |-> TRUE, k |-> items[i][1], v |-> items[i][2]]),
                    items, i + 1)

labels_set(io, labels_arg) ==
    IF ~labels_arg.isdict THEN [io EXCEPT !.exc = "TypeError"]
    ELSE add_labels(_delete_instructions(io, LABEL, NoValue),
                    labels_arg.items, 1)

RECURSIVE change_loop(_, _, _)
change_loop(io, items, i) ==
    IF i > Len(items) \/ io.exc # "" THEN io
    ELSE change_loop(_modify_instruction_label(io, items[i][1], items[i][2]),
                     items, i + 1)

change_labels(io, labels_arg) ==
    IF ~labels_arg.isdict THEN [io EXCEPT !.exc = "TypeError"]
    ELSE change_loop(io, labels_arg.items, 1)

(***************************************************************************)
(* baseimage and cmd (getters).  A value is [none |-> BOOLEAN, s |-> str]. *)
(***************************************************************************)
Absent == [none |-> TRUE, s |-> <<>>]

Present(s) == [none |-> FALSE, s |-> s]

\* the value of the first FROM instruction
baseimage(ls) ==
    LET from == Named(structure(ls), FROM)
    IN  IF from = <<>> THEN Absent ELSE Present(from[1].value)

\* cmd returning at the first CMD instruction, as baseimage does for FROM
cmd_first(ls) ==
    LET cmds == Named(structure(ls), CMD)
    IN  IF cmds = <<>> THEN Absent ELSE Present(cmds[1].value)

\* the value of the last CMD instruction
cmd(ls) ==
    LET cmds == Named(structure(ls), CMD)
    IN  IF cmds = <<>> THEN Absent ELSE Present(cmds[Len(cmds)].value)

(***************************************************************************)
(* The state machine: a DockerfileParser on a Dockerfile, and its calls.   *)
(***************************************************************************)
VARIABLES
    file,            \* the content of the Dockerfile on disk
    cache_content,   \* self.cache_content
    cached_content,  \* self.cached_content
    call,            \* the last call and its arguments
    before,          \* file and cached_content when the last call began
    outcome,         \* the exception the last call raised, "" for none
    result,          \* what the last call returned (a getter)
    writes,          \* the lists the last call handed to the lines setter
    ncalls,          \* the number of calls made
    pc               \* "idle", or "returned" until the caller goes on

vars == <<file, cache_content, cached_content, call, before, outcome, result,
          writes, ncalls, pc>>

\* bounds of the model
MaxLines == 3

MaxCalls == 2

MaxFail == 2

\* the physical lines the initial Dockerfiles are made of
L_from      == <<"F","R","O","M"," ","f","\n">>              \* FROM f
L_run_cont  == <<"R","U","N"," ","a"," ","\\","\n">>         \* RUN a \
L_indent_b  == <<" "," "," "," ","b","\n">>                  \*     b
L_run_empty == <<"R","U","N","\n">>                          \* RUN
L_comment   == <<"#"," ","x","\n">>                          \* # x
L_cmd_nonl  == <<"C","M","D"," ","d">>                       \* CMD d   (no newline)
L_label_kv  == <<"L","A","B","E","L"," ","a","=","1","\n">>  \* LABEL a=1
L_label_old == <<"L","A","B","E","L"," ","a"," ","1","\n">>  \* LABEL a 1
L_label_key == <<"L","A","B","E","L"," ","a","\n">>          \* LABEL a
L_label_two ==                                               \* LABEL b="x y" a=1
    <<"L","A","B","E","L"," ","b","=","\"","x"," ","y","\""," ","a","=","1","\n">>

\* instructions, continuations, a comment, a last line without newline
Lines ==
    {L_from, L_run_cont, L_indent_b, L_run_empty, L_comment, L_cmd_nonl}

\* LABEL instructions in both syntaxes
LabelLines == {L_from, L_label_kv, L_label_old, L_label_key, L_label_two}

\* the Dockerfiles of at most n lines of pool
Files(pool, n) ==
    {join(ls) : ls \in UNION {[1..k -> pool] : k \in 0..n}}

\* the arguments of the calls
RUN == <<"R", "U", "N">>

Instructions == {FROM, RUN, LABEL}

NewValues == {<<"x">>}

OldValues == {NoValue, Given(<<>>), Given(<<"f">>)}

Keys == {<<"a">>, <<"b">>}

LabelValues == {<<"2">>, <<"x", " ", "y">>}

NotADict == [isdict |-> FALSE, items |-> <<>>]

Dict(items) == [isdict |-> TRUE, items |-> items]

LabelArgs ==
    {NotADict, Dict(<<>>), Dict(<<<<<<"a">>, <<"2">>>>>>),
     Dict(<<<<<<"a">>, <<"2">>>>, <<<<"b">>, <<"x", " ", "y">>>>>>)}

Str(s) == [pair |-> FALSE, k |-> s, v |-> <<>>]

Pair(k, v) == [pair |-> TRUE, k |-> k, v |-> v]

NoArgs == [name |-> <<>>, value |-> Str(<<>>), old |-> NoValue, labels |-> NotADict]

\* the parser and its file as a call with the failing write f begins
Start(f) ==
    [file |-> file, cache_content |-> cache_content,
     cached_content |-> cached_content, fail |-> f, writes |-> <<>>,
     exc |-> ""]

\* the state a call leaves: io is what the call made of Start(f)
Return(op, args, io, res) ==
    /\ pc = "idle"
    /\ ncalls < MaxCalls
    /\ ncalls' = ncalls + 1
    /\ pc' = "returned"
    /\ call' = [op |-> op, name |-> args.name, value |-> args.value,
                old |-> args.old, labels |-> args.labels]
    /\ before' = [file |-> file, cached_content |-> cached_content]
    /\ file' = io.file
    /\ cached_content' = io.cached_content
    /\ outcome' = io.exc
    /\ writes' = io.writes
    /\ result' = res
    /\ UNCHANGED cache_content

NoResult == "none"

\* no call is being looked at
NoCall == [op |-> "", name |-> <<>>, value |-> Str(<<>>), old |-> NoValue,
           labels |-> NotADict]

NoBefore == [file |-> <<>>, cached_content |-> <<>>]

TypeOK ==
    /\ cache_content \in BOOLEAN
    /\ ncalls \in 0..MaxCalls
    /\ pc \in {"idle", "returned"}
    /\ outcome \in {"", "IOError", "KeyError", "IndexError", "ValueError",
                    "TypeError", "AssertionError"}

Init ==
    /\ file \in Files(Lines, MaxLines)
    \* DockerfileParser(path): cache_content=False, cached_content = ''
    /\ cache_content = FALSE
    /\ cached_content = <<>>
    /\ call = NoCall
    /\ before = NoBefore
    /\ outcome = ""
    /\ result = NoResult
    /\ writes = <<>>
    /\ ncalls = 0
    /\ pc = "idle"

\* parser.structure
Structure ==
    Return("structure", NoArgs, lines_read(Start(0)),
           structure(lines_get(Start(0))))

\* parser.baseimage: get_first_value("FROM")
GetBaseimage ==
    Return("baseimage", NoArgs, lines_read(Start(0)),
           baseimage(lines_get(Start(0))))

\* parser.cmd: get_value("CMD")
GetCmd ==
    Return("cmd", NoArgs, lines_read(Start(0)), cmd(lines_get(Start(0))))

\* parser.labels: get_labels()
GetLabels ==
    LET got == labels(lines_get(Start(0)))
    IN  Return("labels", NoArgs, [lines_read(Start(0)) EXCEPT !.exc = got.err],
               got.labels)

\* replace_value(instruction, new_value, old_value): _modify_instruction,
\* which parser.baseimage = v and parser.cmd = v call for FROM and CMD
ReplaceValue ==
    \E instruction \in Instructions, new_value \in NewValues,
       old_value \in OldValues, f \in 0..MaxFail :
        Return("replace_value",
               [NoArgs EXCEPT !.name = instruction, !.value = Str(new_value),
                              !.old = old_value],
               _modify_instruction(Start(f), instruction, new_value, old_value),
               NoResult)

\* delete_instructions(instruction, value): _delete_instructions
DeleteInstructions ==
    \E instruction \in Instructions, value \in OldValues, f \in 0..MaxFail :
        Return("delete_instructions",
               [NoArgs EXCEPT !.name = instruction, !.old = value],
               _delete_instructions(Start(f), instruction, value),
               NoResult)

\* append_instruction(instruction, value): _add_instruction
AppendInstruction ==
    \E instruction \in Instructions, f \in 0..MaxFail :
      \E value \in IF instruction = LABEL
                   THEN {Pair(k, v) : k \in Keys, v \in LabelValues}
                   ELSE {Str(v) : v \in NewValues} :
        Return("append_instruction",
               [NoArgs EXCEPT !.name = instruction, !.value = value],
               _add_instruction(Start(f), instruction, value),
               NoResult)

\* set_label(key, value): _modify_instruction_label
SetLabel ==
    \E label_key \in Keys, label_value \in LabelValues, f \in 0..MaxFail :
        Return("set_label",
               [NoArgs EXCEPT !.name = label_key, !.value = Str(label_value)],
               _modify_instruction_label(Start(f), label_key, label_value),
               NoResult)

\* set_labels(mapping): parser.labels = mapping
SetLabels ==
    \E labels_arg \in LabelArgs, f \in 0..MaxFail :
        Return("set_labels", [NoArgs EXCEPT !.labels = labels_arg],
               labels_set(Start(f), labels_arg), NoResult)

\* change_labels(mapping)
ChangeLabels ==
    \E labels_arg \in LabelArgs, f \in 0..MaxFail :
        Return("change_labels", [NoArgs EXCEPT !.labels = labels_arg],
               change_labels(Start(f), labels_arg), NoResult)

\* the caller has looked at what the call did and goes on
Continue ==
    /\ pc = "returned"
    /\ pc' = "idle"
    /\ call' = NoCall
    /\ before' = NoBefore
    /\ outcome' = ""
    /\ result' = NoResult
    /\ writes' = <<>>
    /\ UNCHANGED <<file, cache_content, cached_content, ncalls>>

Next ==
    \/ Continue
    \/ Structure
    \/ GetBaseimage
    \/ GetCmd
    \/ GetLabels
    \/ ReplaceValue
    \/ DeleteInstructions
    \/ AppendInstruction
    \/ SetLabel
    \/ SetLabels
    \/ ChangeLabels

Spec == Init /\ [][Next]_vars

\* the same parser on Dockerfiles of LABEL instructions
InitLabels ==
    /\ file \in Files(LabelLines, MaxLines)
    /\ cache_content = FALSE
    /\ cached_content = <<>>
    /\ call = NoCall
    /\ before = NoBefore
    /\ outcome = ""
    /\ result = NoResult
    /\ writes = <<>>
    /\ ncalls = 0
    /\ pc = "idle"

SpecLabels == InitLabels /\ [][Next]_vars

\* more physical lines, for the scan of structure
L_from_lower == <<"f","r","o","m"," ","g","\n">>              \* from g
L_cmd_c      == <<"C","M","D"," ","c","\n">>                  \* CMD c
L_cmd_cont   == <<"C","M","D"," ","d"," ","\\"," ","\n">>     \* CMD d \ (and a blank)
L_blank      == <<"\n">>                                      \* an empty line
L_comment_bs == <<"#"," ","y","\\","\n">>                     \* # y\

\* two FROM and two CMD with different values, a continuation, a comment
\* and an empty line that can follow it, a comment that ends in a backslash
StructureLines ==
    {L_from, L_from_lower, L_cmd_c, L_cmd_cont, L_indent_b, L_comment,
     L_blank, L_comment_bs}

\* a parser that is only read: structure, baseimage, cmd
InitStructure ==
    /\ file \in Files(StructureLines, MaxLines)
    /\ cache_content = FALSE
    /\ cached_content = <<>>
    /\ call = NoCall
    /\ before = NoBefore
    /\ outcome = ""
    /\ result = NoResult
    /\ writes = <<>>
    /\ ncalls = 0
    /\ pc = "idle"

NextStructure ==
    \/ Continue
    \/ Structure
    \/ GetBaseimage
    \/ GetCmd

SpecStructure == InitStructure /\ [][NextStructure]_vars

\* a FROM instruction that goes on in the next line
L_from_cont == <<"F","R","O","M"," ","f"," ","\\","\n">>       \* FROM f \

\* FROM on one line and continued, with lines to put before and after it
FromLines == {L_from, L_from_cont, L_indent_b, L_comment, L_cmd_c}

\* the values given to the baseimage setter: an image name, one after a
\* blank, one before a backslash
Images == {<<"x">>, <<" ", "x">>, <<"x", "\\">>}

\* parser.baseimage = value: _modify_instruction('FROM', value)
SetBaseimage ==
    \E value \in Images, f \in 0..MaxFail :
        Return("replace_value",
               [NoArgs EXCEPT !.name = FROM, !.value = Str(value)],
               _modify_instruction(Start(f), FROM, value, NoValue),
               NoResult)

InitFrom ==
    /\ file \in Files(FromLines, MaxLines)
    /\ cache_content = FALSE
    /\ cached_content = <<>>
    /\ call = NoCall
    /\ before = NoBefore
    /\ outcome = ""
    /\ result = NoResult
    /\ writes = <<>>
    /\ ncalls = 0
    /\ pc = "idle"

NextFrom ==
    \/ Continue
    \/ SetBaseimage
    \/ GetBaseimage

\* a parser whose base image is set and read
SpecFrom == InitFrom /\ [][NextFrom]_vars

\* the Dockerfiles of the caching parser, and what is written to them
CacheLines == {L_from, L_cmd_c, L_cmd_nonl}

WrittenLines == {<<>>, <<L_from>>, <<L_cmd_c, L_cmd_nonl>>}

WrittenContents == {<<>>, L_cmd_c, L_from \o L_cmd_nonl}

\* parser.lines
GetLines ==
    Return("get_lines", NoArgs, lines_read(Start(0)), lines_get(Start(0)))

\* parser.content
GetContent ==
    Return("get_content", NoArgs, content_read(Start(0)),
           content_get(Start(0)))

\* parser.lines = lines
SetLines ==
    \E lines \in WrittenLines, f \in 0..MaxFail :
        Return("set_lines", [NoArgs EXCEPT !.value = Str(join(lines))],
               lines_set(Start(f), lines), NoResult)

\* parser.content = content
SetContent ==
    \E content \in WrittenContents, f \in 0..MaxFail :
        Return("set_content", [NoArgs EXCEPT !.value = Str(content)],
               content_set(Start(f), content), NoResult)

\* DockerfileParser(path, cache_content=True) on a Dockerfile that exists:
\* the constructor reads the content, which fills the cache
InitCache ==
    /\ file \in Files(CacheLines, MaxLines)
    /\ cache_content = TRUE
    /\ cached_content = file
    /\ call = NoCall
    /\ before = NoBefore
    /\ outcome = ""
    /\ result = NoResult
    /\ writes = <<>>
    /\ ncalls = 0
    /\ pc = "idle"

NextCache ==
    \/ Continue
    \/ GetLines
    \/ GetContent
    \/ SetLines
    \/ SetContent

\* a caching parser whose lines and content are read and written
SpecCache == InitCache /\ [][NextCache]_vars

\* Dockerfiles of FROM and LABEL lines, the labels in both syntaxes, and a
\* parser asked to change values and labels, among them what it refuses
RequestLines == {L_from, L_label_kv, L_label_old}

InitRequests ==
    /\ file \in Files(RequestLines, MaxLines)
    /\ cache_content = FALSE
    /\ cached_content = <<>>
    /\ call = NoCall
    /\ before = NoBefore
    /\ outcome = ""
    /\ result = NoResult
    /\ writes = <<>>
    /\ ncalls = 0
    /\ pc = "idle"

NextRequests ==
    \/ Continue
    \/ ReplaceValue
    \/ SetLabel
    \/ SetLabels
    \/ ChangeLabels

SpecRequests == InitRequests /\ [][NextRequests]_vars

(***************************************************************************)
(* What the properties below look at.                                      *)
(***************************************************************************)
\* the call op has returned (or raised) and the caller has not gone on
Returned(op) == pc = "returned" /\ call.op = op

\* the lines of the Dockerfile when the call began, and now
LinesBefore == splitlines(before.file)

LinesAfter == splitlines(file)

\* what identifies an instruction apart from its place in the file
Text(insn) ==
    [instruction |-> insn.instruction, content |-> insn.content,
     value |-> insn.value]

TextOf(insns) == [i \in 1..Len(insns) |-> Text(insns[i])]

\* the instructions of insns with another name than instruction
Others(insns, instruction) ==
    LET IsNot(insn) == insn.instruction # instruction
    IN  SelectSeq(insns, IsNot)

\* line number n of ls lies in the span of one of insns
InSpan(insns, n) ==
    \E i \in 1..Len(insns) : insns[i].startline <= n /\ n <= insns[i].endline

\* a blank line, or a comment: its first non-blank character is '#'
BlankOrComment(line) == lstrip(line) = <<>> \/ lstrip(line)[1] = "#"

\* the blank and comment lines of ls outside every instruction, in order
Asides(ls) ==
    LET insns == structure(ls)
        idx   == {n \in 0..(Len(ls) - 1) :
                     BlankOrComment(ls[n + 1]) /\ ~InSpan(insns, n)}
        RECURSIVE Take(_)
        Take(n) == IF n >= Len(ls) THEN <<>>
                   ELSE (IF n \in idx THEN <<ls[n + 1]>> ELSE <<>>) \o Take(n + 1)
    IN  Take(0)

(***************************************************************************)
(* C1..C10                                                                 *)
(***************************************************************************)
\* C1: structure() on the two lines 'RUN a \' and '    b' returns exactly
\* one instruction, RUN, with the value 'a b'; in general the value of an
\* instruction of two lines whose first line carries a non-empty argument
\* is that argument joined to the second line with the backslash, the
\* newline and the second line's leading whitespace removed.
C1_ContinuationValue ==
    Returned("structure") =>
        /\ LinesBefore = <<L_run_cont, L_indent_b>> =>
              /\ Len(result) = 1
              /\ result[1].instruction = RUN
              /\ result[1].value = <<"a", " ", "b">>
        /\ \A i \in 1..Len(result) :
              LET first  == LinesBefore[result[i].startline + 1]
                  second == LinesBefore[result[i].endline + 1]
                  arg    == _rstrip_backslash(insnre_match(first).g2)
              IN  (result[i].endline = result[i].startline + 1 /\ arg # <<>>)
                  => result[i].value = arg \o lstrip(_rstrip_backslash(second))

\* C2: replace_value(name, new_value) without old_value replaces each
\* instruction named name with line indices valid for the current lines:
\* afterwards there are as many instructions named name as before and each
\* has the value new_value on a single line.
C2_ReplaceEachInPlace ==
    (Returned("replace_value") /\ ~call.old.given /\ outcome = "") =>
        LET was == Named(structure(LinesBefore), call.name)
            now == Named(structure(LinesAfter), call.name)
        IN  /\ Len(now) = Len(was)
            /\ \A i \in 1..Len(now) :
                  /\ now[i].value = call.value.k
                  /\ now[i].startline = now[i].endline

\* C3: replace_value(name, new_value) does not disturb unrelated content:
\* the instructions with another name are all still there, in the same
\* order, with the same raw content and value, and so is every blank or
\* comment line.
C3_ReplaceKeepsTheRest ==
    (Returned("replace_value") /\ outcome = "") =>
        /\ TextOf(Others(structure(LinesAfter), call.name))
             = TextOf(Others(structure(LinesBefore), call.name))
        /\ Asides(LinesAfter) = Asides(LinesBefore)

\* the keys one LABEL instruction holds (none when it cannot be read)
LabelKeys(insn) ==
    LET got == labels_loop(<<insn>>, 1, EmptyDict)
    IN  IF got.err = "" THEN DOMAIN got.labels ELSE {}

\* C4: set_label(key, value) on a file whose label map holds key completes
\* without error wherever the LABEL instruction sits (also on the first
\* line, also when the key's value is empty, in either syntax); afterwards
\* get_labels() maps key to value and the file has as many LABEL
\* instructions as before.  (A failing write is not the call's error.)
C4_SetLabelSucceeds ==
    (Returned("set_label") /\ outcome # "IOError") =>
        LET was == labels(LinesBefore)
            now == labels(LinesAfter)
        IN  (was.err = "" /\ call.name \in DOMAIN was.labels) =>
              /\ outcome = ""
              /\ now.err = ""
              /\ call.name \in DOMAIN now.labels
              /\ now.labels[call.name] = call.value.k
              /\ Len(Named(structure(LinesAfter), LABEL))
                   = Len(Named(structure(LinesBefore), LABEL))

\* C5: when key is in more than one LABEL instruction, set_label(key,
\* value) rewrites the first of them in file order only: every later one
\* keeps its line span and content, and the first one now gives key the
\* value.
C5_OnlyFirstLabelChanges ==
    (Returned("set_label") /\ outcome = "") =>
        LET was == Named(structure(LinesBefore), LABEL)
            now == Named(structure(LinesAfter), LABEL)
            has == {i \in 1..Len(was) : call.name \in LabelKeys(was[i])}
        IN  Cardinality(has) > 1 =>
              /\ Len(now) = Len(was)
              /\ \A i \in has \ {Min(has)} : now[i] = was[i]
              /\ call.name \in LabelKeys(now[Min(has)])
              /\ labels_loop(<<now[Min(has)]>>, 1, EmptyDict).labels[call.name]
                   = call.value.k

\* C6: set_label(key, value) keeps the other keys and values of the label
\* map, also of the rewritten line and also when another value needs
\* quoting: every other key has the value it had, and no key is new.
C6_SetLabelKeepsOtherKeys ==
    (Returned("set_label") /\ outcome = "") =>
        LET was == labels(LinesBefore).labels
            now == labels(LinesAfter)
        IN  /\ now.err = ""
            /\ DOMAIN now.labels \subseteq DOMAIN was
            /\ \A k \in DOMAIN was \ {call.name} :
                  k \in DOMAIN now.labels /\ now.labels[k] = was[k]

\* the instructions delete_instructions(instruction, value) is to remove:
\* those named instruction, with the value of the filter when one is given
ToDelete(insns, instruction, value) ==
    LET Hit(insn) == /\ insn.instruction = instruction
                     /\ value.given => insn.value = value.s
    IN  SelectSeq(insns, Hit)

ToKeep(insns, instruction, value) ==
    LET Miss(insn) == ~(/\ insn.instruction = instruction
                        /\ value.given => insn.value = value.s)
    IN  SelectSeq(insns, Miss)

\* ls without the lines in the spans of insns
RECURSIVE CutSpans(_, _, _)
CutSpans(ls, insns, n) ==
    IF n >= Len(ls) THEN <<>>
    ELSE (IF InSpan(insns, n) THEN <<>> ELSE <<ls[n + 1]>>)
            \o CutSpans(ls, insns, n + 1)

\* C7: delete_instructions(name, value) removes exactly the line spans of
\* the instructions named name (all without a filter, those with the value
\* of the filter otherwise): the lines are the lines before with these
\* spans cut out, and every other instruction keeps its raw content, its
\* value and its place in the order.
C7_DeleteCutsTheSpans ==
    (Returned("delete_instructions") /\ outcome = "") =>
        LET insns == structure(LinesBefore)
        IN  /\ LinesAfter
                 = CutSpans(LinesBefore, ToDelete(insns, call.name, call.old), 0)
            /\ TextOf(structure(LinesAfter))
                 = TextOf(ToKeep(insns, call.name, call.old))

\* What holds of delete_instructions: an empty filter is taken for no
\* filter ("if value and ..."), and with that the lines are the lines
\* before with the spans of the instructions it is to remove cut out.
DeleteCutsTheSpansOfTruthyFilter ==
    (Returned("delete_instructions") /\ outcome = "") =>
        LET insns  == structure(LinesBefore)
            filter == IF Truthy(call.old) THEN call.old ELSE NoValue
        IN  /\ LinesAfter
                 = CutSpans(LinesBefore, ToDelete(insns, call.name, filter), 0)
            /\ TextOf(structure(LinesAfter))
                 = TextOf(ToKeep(insns, call.name, filter))

\* the dict with the given items
RECURSIVE DictOf(_)
DictOf(items) ==
    IF items = <<>> THEN EmptyDict
    ELSE dict_set(DictOf(SubSeq(items, 1, Len(items) - 1)),
                  items[Len(items)][1], items[Len(items)][2])

\* C8: set_labels(mapping) makes the label map the mapping: afterwards
\* get_labels() is the mapping, the file has one LABEL instruction per
\* entry, and the other instructions are as they were.
C8_SetLabelsGivesTheMapping ==
    (Returned("set_labels") /\ call.labels.isdict /\ outcome = "") =>
        /\ labels(LinesAfter)
             = [err |-> "", labels |-> DictOf(call.labels.items)]
        /\ Len(Named(structure(LinesAfter), LABEL)) = Len(call.labels.items)
        /\ TextOf(Others(structure(LinesAfter), LABEL))
             = TextOf(Others(structure(LinesBefore), LABEL))

\* the value and the line append_instruction is to add
AppendedValue ==
    IF call.value.pair
    THEN <<"\"">> \o call.value.k \o <<"\"", "=", "\"">> \o call.value.v
            \o <<"\"">>
    ELSE call.value.k

AppendedLine == call.name \o <<" ">> \o AppendedValue \o <<"\n">>

\* C9: append_instruction(name, value) hands write_lines the lines it read
\* and one more element, the new line; the file then has one more line and
\* structure() gives the instructions it gave, followed by the new one.
C9_AppendOneLine ==
    (Returned("append_instruction") /\ outcome = "") =>
        /\ writes = <<LinesBefore \o <<AppendedLine>>>>
        /\ Len(LinesAfter) = Len(LinesBefore) + 1
        /\ structure(LinesAfter)
             = structure(LinesBefore)
                 \o <<[instruction |-> call.name,
                       startline   |-> Len(LinesBefore),
                       endline     |-> Len(LinesBefore),
                       content     |-> AppendedLine,
                       value       |-> AppendedValue]>>

Mutations ==
    {"replace_value", "delete_instructions", "append_instruction",
     "set_label", "set_labels", "change_labels"}

\* the last call made again where it began, with no write failing: what
\* it was to leave in the file
Intended ==
    LET io == [file |-> before.file, cache_content |-> cache_content,
               cached_content |-> before.cached_content, fail |-> 0,
               writes |-> <<>>, exc |-> ""]
    IN  CASE call.op = "replace_value" ->
               _modify_instruction(io, call.name, call.value.k, call.old).file
          [] call.op = "delete_instructions" ->
               _delete_instructions(io, call.name, call.old).file
          [] call.op = "append_instruction" ->
               _add_instruction(io, call.name, call.value).file
          [] call.op = "set_label" ->
               _modify_instruction_label(io, call.name, call.value.k).file
          [] call.op = "set_labels" -> labels_set(io, call.labels).file
          [] call.op = "change_labels" -> change_labels(io, call.labels).file
          [] OTHER -> before.file

\* C10: every mutation is all or nothing when a write may fail: it calls
\* write_lines at most once, and whether it returns or raises the file
\* holds the complete result or what it held before, nothing in between.
C10_AllOrNothing ==
    (pc = "returned" /\ call.op \in Mutations) =>
        /\ Len(writes) <= 1
        /\ file = before.file \/ file = Intended

(***************************************************************************)
(* C11..C19                                                                *)
(***************************************************************************)
\* the request of the call is one the parser refuses: replace_value on
\* LABEL, set_labels or change_labels with something that is no dict, or
\* set_label with a key the label map of the file does not hold
Invalid ==
    \/ Returned("replace_value") /\ call.name = LABEL
    \/ Returned("set_labels") /\ ~call.labels.isdict
    \/ Returned("change_labels") /\ ~call.labels.isdict
    \/ /\ Returned("set_label")
       /\ labels(LinesBefore).err = ""
       /\ call.name \notin DOMAIN labels(LinesBefore).labels

\* C11: an invalid request (replace_value on LABEL, set_labels or
\* change_labels with a non-mapping, set_label with a key that is not in
\* the label map) ends in an error of the call's own (ValueError,
\* TypeError, KeyError), the lines setter is not called, and the file is
\* what it was before the call.
C11_InvalidRejected ==
    Invalid =>
        /\ outcome = (CASE call.op = "replace_value" -> "ValueError"
                        [] call.op = "set_label"     -> "KeyError"
                        [] OTHER                     -> "TypeError")
        /\ writes = <<>>
        /\ file = before.file

\* C11 happens: set_label with a key the LABEL instructions of the file do
\* not hold has raised, on a file that has labels
C11_Witness ==
    /\ Invalid
    /\ Returned("set_label")
    /\ labels(LinesBefore).labels # EmptyDict
    /\ outcome = "KeyError"

\* the places in insns of the instructions named instruction
Places(insns, instruction) ==
    {i \in 1..Len(insns) : insns[i].instruction = instruction}

\* C12: cmd (get_value("CMD")) returns the value of the last CMD
\* instruction of the structure and baseimage (get_first_value("FROM")) the
\* value of the first FROM instruction; each returns None exactly when the
\* structure has no instruction of that name.
C12_LastCmdFirstFrom ==
    LET insns == structure(LinesBefore)
        cmds  == Places(insns, CMD)
        froms == Places(insns, FROM)
    IN  /\ Returned("cmd") =>
              /\ result.none <=> cmds = {}
              /\ cmds # {} => result = Present(insns[Max(cmds)].value)
        /\ Returned("baseimage") =>
              /\ result.none <=> froms = {}
              /\ froms # {} => result = Present(insns[Min(froms)].value)

\* C12 happens: cmd has returned on a file with two CMD instructions of
\* different values
C12_Witness ==
    /\ Returned("cmd")
    /\ LET insns == structure(LinesBefore)
           cmds  == Places(insns, CMD)
       IN  /\ Cardinality(cmds) >= 2
           /\ insns[Min(cmds)].value # insns[Max(cmds)].value
           /\ result = Present(insns[Max(cmds)].value)

\* replace_value("FROM", v), without old_value, has returned on a file that
\* had exactly one FROM instruction
OneFromReplaced ==
    /\ Returned("replace_value")
    /\ call.name = FROM
    /\ ~call.old.given
    /\ outcome = ""
    /\ Cardinality(Places(structure(LinesBefore), FROM)) = 1

\* the FROM span of the lines before is now the one line 'FROM v\n', the
\* lines before and after it are what they were, and baseimage returns v
FromRoundTrip ==
    LET from == Named(structure(LinesBefore), FROM)[1]
        v    == call.value.k
    IN  /\ LinesAfter
             = SubSeq(LinesBefore, 1, from.startline)
                 \o <<FROM \o <<" ">> \o v \o <<"\n">>>>
                 \o SubSeq(LinesBefore, from.endline + 2, Len(LinesBefore))
        /\ baseimage(LinesAfter) = Present(v)

\* a value that is read back as it was written: one line, no white space
\* around it, no backslash at its end
ReadBack(v) ==
    /\ \A i \in 1..Len(v) : v[i] # "\n"
    /\ lstrip(v) = v
    /\ rstrip(v) = v
    /\ v = <<>> \/ v[Len(v)] # "\\"

\* C13 as stated: on a file with exactly one FROM instruction (on one line
\* or continued), after replace_value("FROM", v) get_first_value("FROM")
\* returns v, the FROM span is the one line 'FROM v\n', and the lines
\* before and after the span are unchanged, for every v.
C13_AnyValue == OneFromReplaced => FromRoundTrip

\* C13, for the values that are read back as written: on a file with
\* exactly one FROM instruction, after replace_value("FROM", v) with v one
\* line of text without white space around it and without a backslash at
\* its end, get_first_value("FROM") returns v, the FROM span is the one
\* line 'FROM v\n', and the lines before and after it are unchanged.
C13_BaseimageRoundTrip ==
    (OneFromReplaced /\ ReadBack(call.value.k)) => FromRoundTrip

\* C13 happens: a FROM continued over two lines, in a file with a line
\* outside its span, has been replaced by a value that is read back
C13_Witness ==
    /\ OneFromReplaced
    /\ ReadBack(call.value.k)
    /\ LET from == Named(structure(LinesBefore), FROM)[1]
       IN  /\ from.endline > from.startline
           /\ from.startline > 0 \/ from.endline + 1 < Len(LinesBefore)
    /\ baseimage(LinesAfter) = Present(call.value.k)

\* an instruction-shaped line: after its leading white space a word, then
\* white space
Shaped(line) ==
    LET s == lstrip(line)
    IN  \E k \in 1..(Len(s) - 1) :
            /\ \A i \in 1..k : IsWord(s[i])
            /\ IsSpace(s[k + 1])

\* C14: comments and non-instruction lines never appear in the output of
\* structure(): no comment line (first non-blank character '#') and no
\* blank line lies in the line range of a returned instruction, so none
\* gives text to a value or a raw content, also not a comment line right
\* after a line that ends in a continuation backslash; and lines none of
\* which is instruction-shaped give the empty list.
C14_NoCommentInAnySpan ==
    Returned("structure") =>
        /\ \A i \in 1..Len(result) :
              \A n \in result[i].startline..result[i].endline :
                  ~BlankOrComment(LinesBefore[n + 1])
        /\ (\A n \in 1..Len(LinesBefore) : ~Shaped(LinesBefore[n]))
              => result = <<>>

\* What holds of comments in structure(): a blank or comment line is in no
\* span unless it follows a line that ends in a continuation backslash,
\* and lines none of which is instruction-shaped give the empty list.
NoCommentStartsASpan ==
    Returned("structure") =>
        /\ \A i \in 1..Len(result) :
              ~BlankOrComment(LinesBefore[result[i].startline + 1])
        /\ (\A n \in 1..Len(LinesBefore) : ~Shaped(LinesBefore[n]))
              => result = <<>>

\* the line ends in a continuation backslash: a backslash is the last
\* character before the white space at its end
EndsInBackslash(line) ==
    LET s == rstrip(line) IN s # <<>> /\ s[Len(s)] = "\\"

\* the lines (counted from 1) from which an instruction is accumulated up
\* to the end of ls: an instruction-shaped line such that it and all lines
\* after it end in a continuation backslash
OpenAtEnd(ls) ==
    {s \in 1..Len(ls) :
        /\ Shaped(ls[s])
        /\ \A k \in s..Len(ls) : EndsInBackslash(ls[k])}

\* C15: structure() drops an unterminated continuation at the end of the
\* input without a word: when the last line ends in a backslash while an
\* instruction is accumulated, no error is raised, no returned instruction
\* reaches into the lines of that instruction, and the result is what
\* structure() returns for the lines before it.
C15_DanglingDropped ==
    (Returned("structure") /\ OpenAtEnd(LinesBefore) # {}) =>
        LET s == Min(OpenAtEnd(LinesBefore))
        IN  /\ outcome = ""
            /\ \A i \in 1..Len(result) : result[i].endline + 1 < s
            /\ result = structure(SubSeq(LinesBefore, 1, s - 1))

\* C15 happens: structure() has returned an instruction and dropped a
\* later one that was still open at the end of the lines
C15_Witness ==
    /\ Returned("structure")
    /\ OpenAtEnd(LinesBefore) # {}
    /\ Min(OpenAtEnd(LinesBefore)) > 1
    /\ Len(result) >= 1
    /\ outcome = ""

\* C16: line accounting of structure(): every returned instruction has
\* 0 <= startline <= endline < number of lines; each instruction ends
\* before the next one starts; and the lines of an instruction from
\* startline to endline - 1 all end in a continuation backslash while the
\* line at endline does not, so that endline > startline exactly when the
\* line at startline ends in a continuation backslash.
C16_LineAccounting ==
    Returned("structure") =>
        /\ \A i \in 1..Len(result) :
              /\ 0 <= result[i].startline
              /\ result[i].startline <= result[i].endline
              /\ result[i].endline < Len(LinesBefore)
              /\ \A n \in result[i].startline..(result[i].endline - 1) :
                    EndsInBackslash(LinesBefore[n + 1])
              /\ ~EndsInBackslash(LinesBefore[result[i].endline + 1])
              /\ result[i].endline > result[i].startline
                    <=> EndsInBackslash(LinesBefore[result[i].startline + 1])
        /\ \A i \in 1..(Len(result) - 1) :
              result[i].endline < result[i + 1].startline

\* C16 happens: structure() has returned an instruction of several lines
\* and, after it, another instruction
C16_Witness ==
    /\ Returned("structure")
    /\ Len(result) >= 2
    /\ result[1].endline > result[1].startline
    /\ result[1].endline < result[2].startline

\* C17: the raw content of every instruction structure() returns is the
\* concatenation, in order and unchanged, of the lines startline to
\* endline of the lines read.
C17_RawContent ==
    Returned("structure") =>
        \A i \in 1..Len(result) :
            result[i].content
              = join(SubSeq(LinesBefore, result[i].startline + 1,
                            result[i].endline + 1))

\* C17 happens: structure() has returned an instruction whose content is
\* two lines, backslash and newlines included
C17_Witness ==
    /\ Returned("structure")
    /\ \E i \in 1..Len(result) :
          /\ result[i].endline = result[i].startline + 1
          /\ result[i].content
               = LinesBefore[result[i].startline + 1]
                   \o LinesBefore[result[i].endline + 1]
          /\ \E p \in 1..Len(result[i].content) : result[i].content[p] = "\\"

\* C18: delete_instructions(name, value) does not call the lines setter and
\* leaves the file untouched when no instruction has the name (and the
\* value of the filter when one is given); it calls the lines setter
\* exactly once when at least one instruction has.
C18_DeleteWritesOnceOrNever ==
    Returned("delete_instructions") =>
        LET hit == ToDelete(structure(LinesBefore), call.name, call.old)
        IN  /\ hit = <<>> => (writes = <<>> /\ file = before.file)
            /\ hit # <<>> => Len(writes) = 1

\* What holds of the writes of delete_instructions, an empty filter being
\* taken for no filter: none when no instruction is to go, one otherwise.
DeleteWritesOnceOrNeverOfTruthyFilter ==
    Returned("delete_instructions") =>
        LET filter == IF Truthy(call.old) THEN call.old ELSE NoValue
            hit    == ToDelete(structure(LinesBefore), call.name, filter)
        IN  /\ hit = <<>> => (writes = <<>> /\ file = before.file)
            /\ hit # <<>> => Len(writes) = 1

\* C19: cache coherence: with content caching on, after any reads and
\* writes of lines and content, of which writes may fail, a read of lines
\* or content returns what the file holds at that time; and a write that
\* fails with an IO error leaves the file what it was.
C19_CacheCoherence ==
    cache_content =>
        /\ Returned("get_lines") => result = splitlines(file)
        /\ Returned("get_content") => result = file
        /\ ((Returned("set_lines") \/ Returned("set_content"))
               /\ outcome = "IOError") => file = before.file

\* What holds of the cache: a read returns what the file holds whenever the
\* cache is empty or equal to the file, as it is as long as no write has
\* failed; and a failed write leaves the file what it was.
CoherentWhereCacheIsFile ==
    cache_content =>
        /\ (Returned("get_lines")
               /\ (before.cached_content = <<>>
                      \/ before.cached_content = before.file))
              => result = splitlines(file)
        /\ (Returned("get_content")
               /\ (before.cached_content = <<>>
                      \/ before.cached_content = before.file))
              => result = file
        /\ ((Returned("set_lines") \/ Returned("set_content")) /\ outcome = "")
              => (cached_content = file /\ file = call.value.k)
        /\ ((Returned("set_lines") \/ Returned("set_content"))
               /\ outcome = "IOError") => file = before.file

=============================================================================
